---- MODULE Spec2Model ----
(***************************************************************************)
(* Model of src/app.py: the Streamlit story application.  One script run   *)
(* of main() is split into the steps at which it calls an external         *)
(* collaborator (file system, captioning model, translation backend,       *)
(* generation API, speech engine).  Each browser session has its own       *)
(* st.session_state; the two files uploaded_image.jpg and story_audio.mp3  *)
(* are shared by every session of the process.                             *)
(*                                                                         *)
(* Texts, files and images are records tagged by "kind", built from the    *)
(* value they were computed from, so that the origin of a stored value can *)
(* be read off the value itself.                                           *)
(*                                                                         *)
(* Every wrapper catches Exception, so the external calls fail only in the *)
(* ways the wrappers handle; a script run is not interrupted from outside  *)
(* (no rerun of the same session while its pipeline is running).           *)
(***************************************************************************)
EXTENDS Naturals, Sequences, FiniteSets

VARIABLES
    \* st.session_state of each session (src/app.py:74-85)
    story_english, story_translated, audio_file_path, caption, processing_complete,
    \* the two fixed-path files, shared by all sessions
    uploaded_image_jpg, story_audio_mp3,
    \* position of each session's script run in main()
    pcloc,
    \* locals of main() of the current script run of each session
    current_lang_code, uploaded_file, preferences, button, scenario, prompt, story,
    \* observation of the current script run: the calls made so far, the
    \* st.error / st.warning messages shown, and the session state the run started from
    log, messages, before,
    \* what the last completed script run left on the page of each session
    rendered

session_state == <<story_english, story_translated, audio_file_path, caption, processing_complete>>
files == <<uploaded_image_jpg, story_audio_mp3>>
locals == <<current_lang_code, uploaded_file, preferences, button, scenario, prompt, story>>
observed == <<log, messages, before>>
vars == <<session_state, files, pcloc, locals, observed, rendered>>

----------------------------------------------------------------------------
(* Bounds and input sets *)

\* number of distinct images a user may upload
NumImages == 2
Images == 1..NumImages

\* the browser sessions
Sessions == {"A", "B"}

\* the language codes offered to the user: the pivot code and one of the
\* nine others of SUPPORTED_LANGUAGES
SUPPORTED_LANGUAGES == {"en", "hi"}

\* the selectbox vocabularies of get_user_preferences
Vocabulary ==
    [region   |-> {"North India", "South India", "East India", "West India", "Central India"},
     genre    |-> {"Mythology", "Historical Fiction", "Bollywood-inspired Drama", "Folklore"},
     setting  |-> {"Ancient India", "Modern-day City", "Village Life", "Freedom Struggle Era"},
     plot     |-> {"Overcoming obstacles", "Family saga", "Love story", "Friendship and loyalty"},
     tone     |-> {"Emotional", "Inspirational", "Humorous", "Mysterious"},
     theme    |-> {"Karma", "Unity in Diversity", "Tradition vs. Modernity", "Hope"},
     conflict |-> {"Class struggles", "Internal moral dilemma", "Man vs. Nature", "Generational conflict"},
     twist    |-> {"Reincarnation", "Hidden lineage", "Unexpected sacrifice", "Spiritual revelation"},
     ending   |-> {"Happy", "Bittersweet", "Open-ended", "Tragic"}]

PreferenceFields == DOMAIN Vocabulary

\* the first option of every selectbox: what an untouched form returns
DefaultPreferences ==
    [region |-> "North India", genre |-> "Mythology", setting |-> "Ancient India",
     plot |-> "Overcoming obstacles", tone |-> "Emotional", theme |-> "Karma",
     conflict |-> "Class struggles", twist |-> "Reincarnation", ending |-> "Happy"]

\* the preference sets a user picks in the model: the default form and the
\* form with only the plot changed
PreferenceChoices ==
    {DefaultPreferences, [DefaultPreferences EXCEPT !.plot = "Family saga"]}

\* every preference set that differs from p in exactly one field
OneFieldVariants(p) ==
    {[p EXCEPT ![f] = v] : <<f, v>> \in
        {<<f, v>> \in UNION {{f} \X Vocabulary[f] : f \in PreferenceFields} : v # p[f]}}

----------------------------------------------------------------------------
(* Values *)

None == [kind |-> "None"]
EmptyStr == [kind |-> "empty"]
Absent == [kind |-> "absent"]
EmptyFile == [kind |-> "emptyfile"]
Image(i) == [kind |-> "image", img |-> i]
CaptionOf(image) == [kind |-> "caption", of |-> image]
Translated(text, lang) == [kind |-> "translated", of |-> text, lang |-> lang]
StoryOf(p) == [kind |-> "story", of |-> p]
AudioOf(text, lang) == [kind |-> "audio", of |-> text, lang |-> lang]
AudioPath == [kind |-> "path", name |-> "story_audio.mp3"]

\* Python truthiness of an optional string: None and '' are false
Truthy(v) == v.kind \notin {"None", "empty"}

----------------------------------------------------------------------------
(* The wrappers of the external collaborators.  Each takes the outcome of  *)
(* the external call as an argument and returns what the Python function   *)
(* returns: its result, the message it shows, whether it called the        *)
(* backend, and whether an exception leaves it.                            *)

CallOutcomes == {"ok", "empty", "raise"}
BackendOutcomes == {"ok", "raise"}

Returned(result, message, backend) ==
    [result |-> result, message |-> message, backend |-> backend, raised |-> FALSE]

Raised(backend) ==
    [result |-> None, message |-> "none", backend |-> backend, raised |-> TRUE]

\* img2txt: the caption of the image read from the path, None when the model
\* or the image raises (an empty or missing file cannot be decoded)
img2txt(content, outcome) ==
    IF content.kind = "image" /\ outcome # "raise"
    THEN Returned(IF outcome = "ok" THEN CaptionOf(content) ELSE EmptyStr, "none", FALSE)
    ELSE Returned(None, "error: image captioning", FALSE)

\* txt2story with its try/except left out: the exception leaves the function
txt2story_uncaught(p, outcome) ==
    IF outcome # "raise"
    THEN Returned(IF outcome = "ok" THEN StoryOf(p) ELSE EmptyStr, "none", FALSE)
    ELSE Raised(FALSE)

\* txt2story: the concatenation of the streamed chunks, None on any exception
txt2story(p, outcome) ==
    IF outcome # "raise"
    THEN Returned(IF outcome = "ok" THEN StoryOf(p) ELSE EmptyStr, "none", FALSE)
    ELSE Returned(None, "error: story generation", FALSE)

\* translate_text with its try/except left out
translate_text_uncaught(text, target_lang, outcome) ==
    IF target_lang = "en"
    THEN Returned(text, "none", FALSE)
    ELSE IF outcome = "ok"
         THEN Returned(Translated(text, target_lang), "none", TRUE)
         ELSE Raised(TRUE)

\* translate_text with the pivot-code shortcut left out
translate_text_no_pivot(text, target_lang, outcome) ==
    IF outcome = "ok"
    THEN Returned(Translated(text, target_lang), "none", TRUE)
    ELSE Returned(text, "warning: translation failed", TRUE)

\* translate_text: the text itself for the pivot code, else the backend's
\* translation, else (backend failure) the text itself with a warning
translate_text(text, target_lang, outcome) ==
    IF target_lang = "en"
    THEN Returned(text, "none", FALSE)
    ELSE IF outcome = "ok"
         THEN Returned(Translated(text, target_lang), "none", TRUE)
         ELSE Returned(text, "warning: translation failed", TRUE)

\* create_audio up to the opening of story_audio.mp3 by tts.save: gTTS(...)
\* or the open may raise, and then create_audio returns False
create_audio_open(text, language_code, outcome) ==
    IF outcome = "ok"
    THEN [opened |-> TRUE, result |-> TRUE, message |-> "none"]
    ELSE [opened |-> FALSE, result |-> FALSE, message |-> "error: audio generation"]

\* create_audio from the opened file on: the speech is fetched and written
\* and create_audio returns True, or the fetch raises, the file is left as
\* it is and create_audio returns False
create_audio_save(text, language_code, outcome, content) ==
    IF outcome = "ok"
    THEN [result |-> TRUE, file |-> AudioOf(text, language_code), message |-> "none"]
    ELSE [result |-> FALSE, file |-> content, message |-> "error: audio generation"]

\* the prompt template of main: the caption and the preferences it substitutes
BuildPrompt(caption_text, prefs) ==
    [kind |-> "prompt", scenario |-> caption_text,
     genre |-> prefs.genre, setting |-> prefs.setting, region |-> prefs.region,
     tone |-> prefs.tone, theme |-> prefs.theme, conflict |-> prefs.conflict,
     twist |-> prefs.twist, ending |-> prefs.ending]

\* `if scenario is not None:` in place of `if scenario:`
PresentNotNone(result) == result # None

\* `if scenario:` and `if story:` of main
Present(result) == Truthy(result)

\* `if create_audio(...): st.session_state.audio_file_path = "story_audio.mp3"`
StoreAudioPath(ok, old) == IF ok THEN AudioPath ELSE old

\* os.path.exists
Exists(content) == content # Absent

----------------------------------------------------------------------------
(* State *)

\* initialize_session_state on an empty st.session_state
initialize_session_state ==
    /\ story_english = [s \in Sessions |-> None]
    /\ story_translated = [s \in Sessions |-> None]
    /\ audio_file_path = [s \in Sessions |-> None]
    /\ caption = [s \in Sessions |-> None]
    /\ processing_complete = [s \in Sessions |-> FALSE]

NoSnapshot == [processing_complete |-> FALSE, audio_file_path |-> None]
NothingRendered == [image |-> None, caption |-> None, story |-> None, audio |-> None]

NoLocals ==
    /\ current_lang_code = [s \in Sessions |-> "en"]
    /\ uploaded_file = [s \in Sessions |-> None]
    /\ preferences = [s \in Sessions |-> DefaultPreferences]
    /\ button = [s \in Sessions |-> FALSE]
    /\ scenario = [s \in Sessions |-> None]
    /\ prompt = [s \in Sessions |-> None]
    /\ story = [s \in Sessions |-> None]

Init ==
    /\ initialize_session_state
    /\ uploaded_image_jpg = Absent
    /\ story_audio_mp3 = Absent
    /\ pcloc = [s \in Sessions |-> "idle"]
    /\ NoLocals
    /\ log = [s \in Sessions |-> <<>>]
    /\ messages = [s \in Sessions |-> {}]
    /\ before = [s \in Sessions |-> NoSnapshot]
    /\ rendered = [s \in Sessions |-> NothingRendered]

\* one call of the run: the step, what the external call did ("none" when
\* none was made), what the wrapper was given, returned and showed
Entry(step, r, input, outcome) ==
    [step |-> step, outcome |-> outcome, backend |-> r.backend, message |-> r.message,
     input |-> input, output |-> r.result]

Logged(s, e) == log' = [log EXCEPT ![s] = Append(@, e)]

Shown(s, message) ==
    messages' = [messages EXCEPT ![s] = IF message = "none" THEN @ ELSE @ \cup {message}]

Goto(s, loc) == pcloc' = [pcloc EXCEPT ![s] = loc]

\* the `except Exception` of main around the whole pipeline
MainExcept(s) ==
    /\ messages' = [messages EXCEPT ![s] = @ \cup {"error: an error occurred"}]
    /\ Goto(s, "display")

Bool(b) == [kind |-> "bool", value |-> b]

\* what the "Display results" block of main puts on the page
View(s) ==
    [image |-> uploaded_file[s],
     caption |-> IF processing_complete[s] /\ Truthy(caption[s]) THEN caption[s] ELSE None,
     story |-> IF processing_complete[s] /\ Truthy(story_translated[s])
               THEN story_translated[s] ELSE None,
     audio |-> IF /\ processing_complete[s]
                  /\ audio_file_path[s] # None
                  /\ Exists(story_audio_mp3)
               THEN story_audio_mp3 ELSE None]

----------------------------------------------------------------------------
(* The steps of one script run of main() in session s *)

\* a widget interaction reruns the script: the widgets return the user's
\* choices; the button is only there, and only clicked, with a file uploaded
StartScript(s, lang, file, prefs, clicked) ==
    /\ pcloc[s] = "idle"
    /\ file = None => ~clicked
    /\ current_lang_code' = [current_lang_code EXCEPT ![s] = lang]
    /\ uploaded_file' = [uploaded_file EXCEPT ![s] = file]
    /\ preferences' = [preferences EXCEPT ![s] = prefs]
    /\ button' = [button EXCEPT ![s] = clicked]
    /\ before' = [before EXCEPT ![s] =
                    [processing_complete |-> processing_complete[s],
                     audio_file_path |-> audio_file_path[s]]]
    /\ Goto(s, IF file = None THEN "display" ELSE "open_image")
    /\ UNCHANGED <<session_state, files, scenario, prompt, story, log, messages, rendered>>

\* open("uploaded_image.jpg", "wb") truncates the shared file
OpenImage(s) ==
    /\ pcloc[s] = "open_image"
    /\ uploaded_image_jpg' = EmptyFile
    /\ Goto(s, "write_image")
    /\ UNCHANGED <<session_state, story_audio_mp3, locals, observed, rendered>>

\* file.write(bytes_data), then the button decides whether the pipeline runs.
\* Nothing locks the file: whoever writes last decides its content.
WriteImage(s) ==
    /\ pcloc[s] = "write_image"
    /\ uploaded_image_jpg' = uploaded_file[s]
    /\ Goto(s, IF button[s] THEN "caption" ELSE "display")
    /\ UNCHANGED <<session_state, story_audio_mp3, locals, observed, rendered>>

\* scenario = img2txt("uploaded_image.jpg"); if scenario:
Caption(s, outcome) ==
    /\ pcloc[s] = "caption"
    /\ uploaded_image_jpg.kind # "image" => outcome = "raise"
    /\ LET r == img2txt(uploaded_image_jpg, outcome) IN
        /\ Logged(s, Entry("caption", r, uploaded_image_jpg, outcome))
        /\ IF r.raised
           THEN MainExcept(s) /\ UNCHANGED scenario
           ELSE /\ scenario' = [scenario EXCEPT ![s] = r.result]
                /\ Shown(s, r.message)
                /\ Goto(s, IF Present(r.result) THEN "translate_caption" ELSE "display")
    /\ UNCHANGED <<session_state, files, current_lang_code, uploaded_file, preferences,
                   button, prompt, story, before, rendered>>

\* st.session_state.caption = translate_text(scenario, current_lang_code)
TranslateCaption(s, outcome) ==
    /\ pcloc[s] = "translate_caption"
    /\ LET r == translate_text(scenario[s], current_lang_code[s], outcome) IN
        /\ Logged(s, Entry("translate-caption", r, scenario[s],
                            IF r.backend THEN outcome ELSE "none"))
        /\ IF r.raised
           THEN MainExcept(s) /\ UNCHANGED caption
           ELSE /\ caption' = [caption EXCEPT ![s] = r.result]
                /\ Shown(s, r.message)
                /\ Goto(s, "build_prompt")
    /\ UNCHANGED <<story_english, story_translated, audio_file_path, processing_complete,
                   files, locals, before, rendered>>

\* prompt = f"""Based on the image description: ..."""
ComposePrompt(s) ==
    /\ pcloc[s] = "build_prompt"
    /\ LET p == BuildPrompt(scenario[s], preferences[s]) IN
        /\ prompt' = [prompt EXCEPT ![s] = p]
        /\ Logged(s, Entry("build-prompt", Returned(p, "none", FALSE), scenario[s], "none"))
    /\ Goto(s, "generate_story")
    /\ UNCHANGED <<session_state, files, current_lang_code, uploaded_file, preferences,
                   button, scenario, story, messages, before, rendered>>

\* story = txt2story(prompt); if story:
GenerateStory(s, outcome) ==
    /\ pcloc[s] = "generate_story"
    /\ LET r == txt2story(prompt[s], outcome) IN
        /\ Logged(s, Entry("generate-story", r, prompt[s], outcome))
        /\ IF r.raised
           THEN MainExcept(s) /\ UNCHANGED story
           ELSE /\ story' = [story EXCEPT ![s] = r.result]
                /\ Shown(s, r.message)
                /\ Goto(s, IF Present(r.result) THEN "translate_story" ELSE "display")
    /\ UNCHANGED <<session_state, files, current_lang_code, uploaded_file, preferences,
                   button, scenario, prompt, before, rendered>>

\* st.session_state.story_english = story
\* st.session_state.story_translated = translate_text(story, current_lang_code)
TranslateStory(s, outcome) ==
    /\ pcloc[s] = "translate_story"
    /\ story_english' = [story_english EXCEPT ![s] = story[s]]
    /\ LET r == translate_text(story[s], current_lang_code[s], outcome) IN
        /\ Logged(s, Entry("translate-story", r, story[s],
                            IF r.backend THEN outcome ELSE "none"))
        /\ IF r.raised
           THEN MainExcept(s) /\ UNCHANGED story_translated
           ELSE /\ story_translated' = [story_translated EXCEPT ![s] = r.result]
                /\ Shown(s, r.message)
                /\ Goto(s, "create_audio")
    /\ UNCHANGED <<audio_file_path, caption, processing_complete, files, locals,
                   before, rendered>>

\* create_audio(st.session_state.story_translated, current_lang_code), first
\* half: tts = gTTS(...) and the open of story_audio.mp3 in tts.save, which
\* truncates the shared file.  When it fails create_audio returns False.
CreateAudioOpen(s, outcome) ==
    /\ pcloc[s] = "create_audio"
    /\ LET r == create_audio_open(story_translated[s], current_lang_code[s], outcome) IN
        IF r.opened
        THEN /\ story_audio_mp3' = EmptyFile
             /\ Goto(s, "save_audio")
             /\ UNCHANGED <<audio_file_path, log, messages>>
        ELSE /\ audio_file_path' =
                    [audio_file_path EXCEPT ![s] = StoreAudioPath(r.result, @)]
             /\ Logged(s, Entry("synthesize-audio",
                                Returned(Bool(r.result), r.message, FALSE),
                                story_translated[s], outcome))
             /\ Shown(s, r.message)
             /\ Goto(s, "complete")
             /\ UNCHANGED story_audio_mp3
    /\ UNCHANGED <<story_english, story_translated, caption, processing_complete,
                   uploaded_image_jpg, locals, before, rendered>>

\* second half of create_audio: tts.save writes the speech, and main stores
\* the path when create_audio returned True
CreateAudioSave(s, outcome) ==
    /\ pcloc[s] = "save_audio"
    /\ LET r == create_audio_save(story_translated[s], current_lang_code[s], outcome,
                                  story_audio_mp3) IN
        /\ story_audio_mp3' = r.file
        /\ audio_file_path' = [audio_file_path EXCEPT ![s] = StoreAudioPath(r.result, @)]
        /\ Logged(s, Entry("synthesize-audio",
                           Returned(Bool(r.result), r.message, FALSE),
                           story_translated[s], outcome))
        /\ Shown(s, r.message)
    /\ Goto(s, "complete")
    /\ UNCHANGED <<story_english, story_translated, caption, processing_complete,
                   uploaded_image_jpg, locals, before, rendered>>

\* processing_complete set only when the audio path was stored
CompleteOnlyWithAudio(s) ==
    /\ pcloc[s] = "complete"
    /\ processing_complete' =
            [processing_complete EXCEPT ![s] = audio_file_path[s] # None]
    /\ Goto(s, "display")
    /\ UNCHANGED <<story_english, story_translated, audio_file_path, caption, files,
                   locals, observed, rendered>>

\* processing_complete kept in a module-level global instead of st.session_state
CompleteEverySession(s) ==
    /\ pcloc[s] = "complete"
    /\ processing_complete' = [t \in Sessions |-> TRUE]
    /\ Goto(s, "display")
    /\ UNCHANGED <<story_english, story_translated, audio_file_path, caption, files,
                   locals, observed, rendered>>

\* st.session_state.processing_complete = True
Complete(s) ==
    /\ pcloc[s] = "complete"
    /\ processing_complete' = [processing_complete EXCEPT ![s] = TRUE]
    /\ Goto(s, "display")
    /\ UNCHANGED <<story_english, story_translated, audio_file_path, caption, files,
                   locals, observed, rendered>>

\* the "Display results" block; the script run ends and its locals are gone
Display(s) ==
    /\ pcloc[s] = "display"
    /\ rendered' = [rendered EXCEPT ![s] = View(s)]
    /\ current_lang_code' = [current_lang_code EXCEPT ![s] = "en"]
    /\ uploaded_file' = [uploaded_file EXCEPT ![s] = None]
    /\ preferences' = [preferences EXCEPT ![s] = DefaultPreferences]
    /\ button' = [button EXCEPT ![s] = FALSE]
    /\ scenario' = [scenario EXCEPT ![s] = None]
    /\ prompt' = [prompt EXCEPT ![s] = None]
    /\ story' = [story EXCEPT ![s] = None]
    /\ log' = [log EXCEPT ![s] = <<>>]
    /\ messages' = [messages EXCEPT ![s] = {}]
    /\ before' = [before EXCEPT ![s] = NoSnapshot]
    /\ Goto(s, "idle")
    /\ UNCHANGED <<session_state, files>>

\* the steps of a run that take no input
Pipeline(s) ==
    \/ OpenImage(s)
    \/ WriteImage(s)
    \/ \E o \in CallOutcomes : Caption(s, o)
    \/ \E o \in BackendOutcomes : TranslateCaption(s, o)
    \/ ComposePrompt(s)
    \/ \E o \in CallOutcomes : GenerateStory(s, o)
    \/ \E o \in BackendOutcomes : TranslateStory(s, o)
    \/ \E o \in BackendOutcomes : CreateAudioOpen(s, o)
    \/ \E o \in BackendOutcomes : CreateAudioSave(s, o)
    \/ Complete(s)
    \/ Display(s)

\* one user in one session, free to pick any image, language and preferences
Next ==
    \/ \E lang \in SUPPORTED_LANGUAGES, file \in {None} \cup {Image(i) : i \in Images},
          prefs \in PreferenceChoices, clicked \in BOOLEAN :
            StartScript("A", lang, file, prefs, clicked)
    \/ Pipeline("A")

Spec == Init /\ [][Next]_vars

\* the image each session uploads when several sessions are open
ImageOf(s) == IF s = "A" THEN Image(1) ELSE Image(2)

\* two users, each with an image of their own and an untouched form, whose
\* script runs interleave step by step
MultiNext ==
    \E s \in Sessions :
        \/ \E clicked \in BOOLEAN : StartScript(s, "en", ImageOf(s), DefaultPreferences, clicked)
        \/ Pipeline(s)

MultiSpec == Init /\ [][MultiNext]_vars

----------------------------------------------------------------------------
(* Properties *)

StepOrder ==
    <<"caption", "translate-caption", "build-prompt", "generate-story",
      "translate-story", "synthesize-audio">>

\* the names of the steps session s has executed in its current run, in order
Steps(s) == [i \in 1..Len(log[s]) |-> log[s][i].step]

IsPrefix(t, u) == Len(t) <= Len(u) /\ \A i \in 1..Len(t) : t[i] = u[i]

\* the calls of step `step` in the current run of s
Calls(s, step) == {i \in 1..Len(log[s]) : log[s][i].step = step}

\* the pipeline of s has run to the "Display results" block of main
EndOfRun(s) == pcloc[s] = "display" /\ button[s]

MainError == "error: an error occurred"

\* the image a value was computed from, None when there is none
RECURSIVE Origin(_)
Origin(v) ==
    CASE v.kind = "image" -> v
      [] v.kind \in {"caption", "translated", "story", "audio"} -> Origin(v.of)
      [] v.kind = "prompt" -> Origin(v.scenario)
      [] OTHER -> None

\* C1: at the end of every run processing_complete is true if and only if
\* both the captioning and the story generation of that run succeeded
C1_CompleteIffRunSucceeded ==
    \A s \in Sessions :
        EndOfRun(s) =>
            (processing_complete[s] <=> (Truthy(scenario[s]) /\ Truthy(story[s])))

SynthesisFailed(s) ==
    \E i \in Calls(s, "synthesize-audio") : log[s][i].output = Bool(FALSE)

\* C2: at the end of a run whose create_audio failed the audio path is unset
\* and the audio player is not rendered
C2_FailedSynthesisClearsAudio ==
    \A s \in Sessions :
        (EndOfRun(s) /\ SynthesisFailed(s)) =>
            (audio_file_path[s] = None /\ View(s).audio = None)

FromLatestRun(s, shown) == shown = None \/ Origin(shown) = uploaded_file[s]

\* C3: at the end of a run the caption, story and audio that are rendered
\* all come from the image of that run
C3_NoStaleMixing ==
    \A s \in Sessions :
        EndOfRun(s) =>
            /\ View(s).image = uploaded_file[s]
            /\ FromLatestRun(s, View(s).caption)
            /\ FromLatestRun(s, View(s).story)
            /\ FromLatestRun(s, View(s).audio)

\* C4: the steps of a run are a prefix of the fixed order, so each happens
\* at most once and in order; a step after the caption is only made with a
\* caption present, a step after the generation only with a story present
C4_StepsInOrder ==
    \A s \in Sessions :
        /\ IsPrefix(Steps(s), StepOrder)
        /\ Len(log[s]) >= 2 => Truthy(log[s][1].output)
        /\ Len(log[s]) >= 5 => Truthy(log[s][4].output)
        /\ pcloc[s] \in {"translate_caption", "build_prompt", "generate_story"}
                => Truthy(scenario[s])
        /\ pcloc[s] \in {"translate_story", "create_audio", "save_audio", "complete"}
                => Truthy(scenario[s]) /\ Truthy(story[s])

C4_Witness ==
    \E s \in Sessions :
        /\ EndOfRun(s)
        /\ Steps(s) = <<"caption", "translate-caption", "build-prompt", "generate-story">>
        /\ log[s][4].output = None

TranslationFailed(s, i) ==
    /\ log[s][i].step \in {"translate-caption", "translate-story"}
    /\ log[s][i].outcome = "raise"

\* C5: for a language other than "en", a translation whose backend fails
\* returns its input and raises nothing, and the run goes on: after a failed
\* caption translation the story generator is called, after a failed story
\* translation the audio is synthesized from the untranslated story
C5_TranslationFailsSoft ==
    \A s \in Sessions :
        \A i \in 1..Len(log[s]) :
            (current_lang_code[s] # "en" /\ TranslationFailed(s, i)) =>
                /\ log[s][i].output = log[s][i].input
                /\ MainError \notin messages[s]
                /\ (EndOfRun(s) /\ log[s][i].step = "translate-caption")
                        => Calls(s, "generate-story") # {}
                /\ (EndOfRun(s) /\ log[s][i].step = "translate-story")
                        => \E j \in Calls(s, "synthesize-audio") :
                                log[s][j].input = story[s]

C5_Witness ==
    \E s \in Sessions :
        /\ EndOfRun(s)
        /\ current_lang_code[s] = "hi"
        /\ Len(log[s]) = 6
        /\ TranslationFailed(s, 2)
        /\ TranslationFailed(s, 5)
        /\ story_audio_mp3 = AudioOf(story[s], "hi")

\* C6: the prompt is a function of the caption and the preferences that
\* embeds each of the nine preference values, so that changing any one
\* preference changes the prompt
C6_PromptEmbedsAllNine ==
    \A s \in Sessions :
        prompt[s] # None =>
            /\ prompt[s] = BuildPrompt(scenario[s], preferences[s])
            /\ prompt[s].scenario = scenario[s]
            /\ \A f \in PreferenceFields :
                    \E g \in DOMAIN prompt[s] \ {"kind", "scenario"} :
                        prompt[s][g] = preferences[s][f]
            /\ \A q \in OneFieldVariants(preferences[s]) :
                    BuildPrompt(scenario[s], q) # prompt[s]

\* C7: with the pivot code "en" translate_text returns its input and does
\* not call the translation backend
C7_PivotIsIdentity ==
    \A s \in Sessions :
        \A i \in Calls(s, "translate-caption") \cup Calls(s, "translate-story") :
            current_lang_code[s] = "en" =>
                /\ log[s][i].output = log[s][i].input
                /\ ~log[s][i].backend
                /\ log[s][i].outcome = "none"

C7_Witness ==
    \E s \in Sessions :
        /\ EndOfRun(s)
        /\ current_lang_code[s] = "en"
        /\ Len(log[s]) = 6
        /\ caption[s] = scenario[s]
        /\ story_translated[s] = story[s]

\* C8: at session start and at the end of every run processing_complete is
\* true exactly when a generated story and its translation are stored, it is
\* never true with story_english unset, and the audio path is never set
\* while it is false
C8_CompleteIffStoryStored ==
    \A s \in Sessions :
        pcloc[s] \in {"idle", "display"} =>
            /\ processing_complete[s] <=>
                    (story_english[s].kind = "story" /\ Truthy(story_translated[s]))
            /\ processing_complete[s] => story_english[s] # None
            /\ audio_file_path[s] # None => processing_complete[s]

C8_Witness ==
    \E s \in Sessions :
        /\ pcloc[s] = "idle"
        /\ processing_complete[s]
        /\ audio_file_path[s] = None
        /\ rendered[s].story = story_translated[s]
        /\ story_english[s].kind = "story"

GenerationRaised(s) ==
    \E i \in Calls(s, "generate-story") : log[s][i].outcome = "raise"

\* C9: in a run whose generation call raises, txt2story reports the error,
\* nothing reaches the handler of main, no later step is made, and
\* processing_complete and audio_file_path are what they were before the run
C9_GenerationErrorIsContained ==
    \A s \in Sessions :
        (EndOfRun(s) /\ GenerationRaised(s)) =>
            /\ "error: story generation" \in messages[s]
            /\ MainError \notin messages[s]
            /\ story[s] = None
            /\ Len(log[s]) = 4
            /\ processing_complete[s] = before[s].processing_complete
            /\ audio_file_path[s] = before[s].audio_file_path
            /\ (~before[s].processing_complete /\ before[s].audio_file_path = None)
                    => (~processing_complete[s] /\ audio_file_path[s] = None)

C9_Witness ==
    \E s \in Sessions :
        /\ EndOfRun(s)
        /\ GenerationRaised(s)
        /\ ~before[s].processing_complete
        /\ before[s].audio_file_path = None
        /\ ~processing_complete[s]
        /\ View(s).story = None

SessionFields(s) ==
    <<story_english[s], story_translated[s], audio_file_path[s], caption[s],
      processing_complete[s]>>

\* C10: a step of one session leaves the five session-state fields of every
\* other session as they are
C10_SessionsShareOnlyFiles ==
    [][\A s \in Sessions : pcloc'[s] = pcloc[s] => SessionFields(s)' = SessionFields(s)]_vars

\* session s is captioning an image it did not upload
CaptionsOtherImage(s) ==
    /\ scenario[s].kind = "caption"
    /\ scenario[s].of # uploaded_file[s]

\* the page of session s plays audio synthesized from another session's story
PlaysOtherStory(s) ==
    /\ rendered[s].audio.kind = "audio"
    /\ rendered[s].audio.of # story_translated[s]
    /\ \E t \in Sessions \ {s} : rendered[s].audio.of = story_translated[t]

C10_Witness ==
    \E s \in Sessions : CaptionsOtherImage(s) /\ PlaysOtherStory(s)

====
